---- MODULE Spec2Model ----
(***************************************************************************)
(* The tool-call client of MCP/Lab01/agent.py: one client process that     *)
(* owns a child process, speaks line-delimited JSON-RPC over the child's   *)
(* pipes, and runs the handshake initialize -> notifications/initialized   *)
(* -> tools/list followed by an interactive loop of tools/call requests.   *)
(*                                                                         *)
(* Text is a sequence of tokens.  A token is one character of JSON         *)
(* punctuation, one whitespace character, or an atom standing for a run of *)
(* ordinary characters (a word or a digit).  json.loads, str.strip and     *)
(* str.split are defined on such sequences.                                *)
(*                                                                         *)
(* Time: elapsed is the whole number of time units since the current       *)
(* recv() took its start time.  The clock advances only where the client   *)
(* waits (a blocked readline, time.sleep, Popen.wait); the statements in   *)
(* between take no time, so the child's steps fall before or after them:   *)
(* the child moves while the client is at one of its waiting points.       *)
(***************************************************************************)
EXTENDS Integers, Sequences, FiniteSets, TLC

(* ----------------------------- bounds ---------------------------------- *)

\* Lines the child's stdout pipe holds unread at most.
MaxPipe == 1

\* Request ids issued at most (initialize, tools/list, then tools/call).
MaxId == 3

\* How far beyond the timeout the clock of one recv() is followed.
MaxOverrun == 1

\* Diagnostic lines the child writes before it answers, at most.
MaxDiag == 3

\* Lines the pipe of the child's error stream holds before a write blocks.
StderrCap == 2

(* ------------------------- program constants --------------------------- *)

\* recv(timeout=10)
Timeout == 10

\* mcp_proc.wait(timeout=1)
GraceTimeout == 1

(* ------------------------------ tokens --------------------------------- *)

Q == "\""

EQ == "\\\""

NL == "\n"

Whitespace == {" ", NL, "\t"}

Digits == <<"1", "2", "3", "4", "5", "6", "7", "8", "9">>

IsDigit(tok) == \E n \in 1..Len(Digits) : Digits[n] = tok

DigitValue(tok) == CHOOSE n \in 1..Len(Digits) : Digits[n] = tok

(* --------------------------- JSON values ------------------------------- *)
(* A decoded value is a pair <<tag, payload>>: a number, a string (its     *)
(* tokens), an array (a sequence of values) or an object (a function from  *)
(* key strings to values).  None is Python's None.                         *)

None == <<"none", 0>>

Num(n) == <<"num", n>>

Str(s) == <<"str", s>>

Arr(a) == <<"arr", a>>

Obj(m) == <<"obj", m>>

EmptyDict == Obj(<<>>)

IsNum(v) == v[1] = "num"

IsStr(v) == v[1] = "str"

IsList(v) == v[1] = "arr"

IsDict(v) == v[1] = "obj"

\* key in d
HasKey(d, k) == IsDict(d) /\ <<k>> \in DOMAIN d[2]

\* d.get(k)
DictGet(d, k) == IF <<k>> \in DOMAIN d[2] THEN d[2][<<k>>] ELSE None

\* v == n for an int n
EqualsInt(v, n) == IsNum(v) /\ v[2] = n

\* v == "word"
EqualsWord(v, w) == IsStr(v) /\ v[2] = <<w>>

(* ------------------------------ json.loads ----------------------------- *)

ParseFail == [ok |-> FALSE, v |-> None, next |-> 0]

ParseOk(val, nxt) == [ok |-> TRUE, v |-> val, next |-> nxt]

RECURSIVE SkipWs(_, _)
SkipWs(s, i) ==
    IF i <= Len(s) /\ s[i] \in Whitespace THEN SkipWs(s, i + 1) ELSE i

\* The body of a string literal from position i, up to its closing quote.
RECURSIVE ScanString(_, _, _)
ScanString(s, i, acc) ==
    IF i > Len(s) THEN ParseFail
    ELSE IF s[i] = Q THEN ParseOk(Str(acc), i + 1)
    ELSE IF s[i] \in {NL, "\t"} THEN ParseFail
    ELSE ScanString(s, i + 1, Append(acc, IF s[i] = EQ THEN Q ELSE s[i]))

RECURSIVE ParseValue(_, _)
RECURSIVE ParsePairs(_, _, _)
RECURSIVE ParseElems(_, _, _)

\* key : value pairs after "{" or ",", up to the closing brace.
ParsePairs(s, i, m) ==
    LET k == IF i <= Len(s) /\ s[i] = Q THEN ScanString(s, i + 1, <<>>)
             ELSE ParseFail
        c == SkipWs(s, k.next)
        v == IF k.ok /\ c <= Len(s) /\ s[c] = ":"
             THEN ParseValue(s, SkipWs(s, c + 1)) ELSE ParseFail
        e == SkipWs(s, v.next)
        m2 == (k.v[2] :> v.v) @@ m
    IN  IF ~v.ok \/ e > Len(s) THEN ParseFail
        ELSE IF s[e] = "}" THEN ParseOk(Obj(m2), e + 1)
        ELSE IF s[e] = "," THEN ParsePairs(s, SkipWs(s, e + 1), m2)
        ELSE ParseFail

\* Array elements after "[" or ",", up to the closing bracket.
ParseElems(s, i, acc) ==
    LET v == ParseValue(s, i)
        e == SkipWs(s, v.next)
    IN  IF ~v.ok \/ e > Len(s) THEN ParseFail
        ELSE IF s[e] = "]" THEN ParseOk(Arr(Append(acc, v.v)), e + 1)
        ELSE IF s[e] = "," THEN ParseElems(s, SkipWs(s, e + 1), Append(acc, v.v))
        ELSE ParseFail

ParseValue(s, i) ==
    IF i > Len(s) THEN ParseFail
    ELSE IF s[i] = "{" THEN
        LET j == SkipWs(s, i + 1)
        IN  IF j <= Len(s) /\ s[j] = "}" THEN ParseOk(EmptyDict, j + 1)
            ELSE ParsePairs(s, j, <<>>)
    ELSE IF s[i] = "[" THEN
        LET j == SkipWs(s, i + 1)
        IN  IF j <= Len(s) /\ s[j] = "]" THEN ParseOk(Arr(<<>>), j + 1)
            ELSE ParseElems(s, j, <<>>)
    ELSE IF s[i] = Q THEN ScanString(s, i + 1, <<>>)
    ELSE IF IsDigit(s[i]) THEN ParseOk(Num(DigitValue(s[i])), i + 1)
    ELSE ParseFail

\* json.loads(s): one value with optional whitespace around it, nothing else.
JsonLoads(s) ==
    LET r == ParseValue(s, SkipWs(s, 1))
    IN  IF r.ok /\ SkipWs(s, r.next) > Len(s) THEN r ELSE ParseFail

(* ------------------------------ str.strip ------------------------------ *)

RECURSIVE LStrip(_)
LStrip(s) == IF s # <<>> /\ Head(s) \in Whitespace THEN LStrip(Tail(s)) ELSE s

RECURSIVE RStrip(_)
RStrip(s) ==
    IF s # <<>> /\ s[Len(s)] \in Whitespace
    THEN RStrip(SubSeq(s, 1, Len(s) - 1)) ELSE s

Strip(s) == RStrip(LStrip(s))

(* ------------------------- str.split and float ------------------------- *)

RECURSIVE SplitFrom(_, _, _)
SplitFrom(s, cur, acc) ==
    IF s = <<>> THEN (IF cur = <<>> THEN acc ELSE Append(acc, cur))
    ELSE IF Head(s) \in Whitespace
    THEN SplitFrom(Tail(s), <<>>, IF cur = <<>> THEN acc ELSE Append(acc, cur))
    ELSE SplitFrom(Tail(s), Append(cur, Head(s)), acc)

\* raw.split(): the maximal runs of non-whitespace tokens.
Split(s) == SplitFrom(s, <<>>, <<>>)

\* float(w) succeeds: w is a run of digits.
FloatOk(w) == w # <<>> /\ \A i \in 1..Len(w) : IsDigit(w[i])

RECURSIVE FloatOf(_)
FloatOf(w) ==
    IF Len(w) = 1 THEN DigitValue(w[1])
    ELSE 10 * FloatOf(SubSeq(w, 1, Len(w) - 1)) + DigitValue(w[Len(w)])

\* a_str, b_str = raw.split(); a = float(a_str); b = float(b_str)
TwoNumbers(raw) ==
    LET w == Split(raw)
    IN  Len(w) = 2 /\ FloatOk(w[1]) /\ FloatOk(w[2])

(* ------------------- what the child and the user write ------------------ *)

JStr(w) == <<Q, w, Q>>

Member(k, v) == JStr(k) \o <<":", " ">> \o v

Braces(t) == <<"{">> \o t \o <<"}">>

\* A JSON string literal holding text t: the quotes in t are escaped.
JsonDumpsStr(t) ==
    <<Q>> \o [i \in 1..Len(t) |-> IF t[i] = Q THEN EQ ELSE t[i]] \o <<Q>>

\* One line {"id": id, key: payload}.
RespLine(id, key, payload) ==
    Braces(Member("id", <<Digits[id]>>) \o <<",", " ">> \o Member(key, payload))
        \o <<NL>>

ToolToks(n) == Braces(Member("name", JStr(n)))

Tools1Toks == Braces(Member("tools", <<"[">> \o ToolToks("multiply") \o <<"]">>))

Tools2Toks ==
    Braces(Member("tools", <<"[">> \o ToolToks("multiply") \o <<",", " ">>
                              \o ToolToks("add") \o <<"]">>))

\* The tool's return value as JSON text: {"summary": "3x7=21"}.
SummaryText == Braces(Member("summary", JStr("3x7=21")))

TextToks ==
    Braces(Member("content",
        <<"[">> \o Braces(Member("type", JStr("text")) \o <<",", " ">>
                          \o Member("text", JsonDumpsStr(SummaryText)))
        \o <<"]">>))

ImageToks ==
    Braces(Member("content", <<"[">> \o Braces(Member("type", JStr("image"))) \o <<"]">>))

EmptyContentToks == Braces(Member("content", <<"[", "]">>))

StrContentToks == Braces(Member("content", JStr("x")))

NotificationLine == Braces(Member("method", JStr("notifications/message"))) \o <<NL>>

BlankLine == <<" ", NL>>

\* A line cut short: json.loads fails on it.
BrokenLine == <<"{", Q, "id", Q, ":", NL>>

ScalarLine == <<"7", NL>>

\* The lines the child may write to its stdout: a blank line, a line
\* that is not JSON, JSON that is not an object, a notification, and
\* responses to each request with and without the expected keys.
Lines ==
    {BlankLine, BrokenLine, ScalarLine, NotificationLine}
    \cup {RespLine(k, "result", <<"{", "}">>) : k \in {1, 3}}
    \cup {RespLine(k, "error", <<"{", "}">>) : k \in {2, 3}}
    \cup {RespLine(2, "result", Tools1Toks), RespLine(2, "result", Tools2Toks)}
    \cup {RespLine(k, "result", TextToks) : k \in 3..MaxId}
    \cup {RespLine(3, "result", ImageToks), RespLine(3, "result", EmptyContentToks),
          RespLine(3, "result", StrContentToks)}

\* The lines the user may type at the prompt (input() drops the newline).
Inputs ==
    {<<"exit">>, <<"quit">>, <<>>, <<" ">>, <<" ", "exit">>, <<"EXIT">>,
     <<"3", " ", "7">>, <<" ", "1", "2", "\t", "3", " ">>,
     <<"3", " ", "x">>, <<"3", " ", "7", " ", "9">>}

\* A line recv() accepts: non-blank after strip() and json.loads succeeds.
ValidLine(line) == Strip(line) # <<>> /\ JsonLoads(Strip(line)).ok

(* ----------------------------- extract_json ---------------------------- *)
(* RAG/Lab04/network_buddy.py.  A backtick is one token and the language   *)
(* tag json is one token, so that str.replace acts on the fence markers    *)
(* wherever they stand, inside a string literal too.                       *)

\* The backtick character (a TLA+ string cannot hold it).
Backtick == "backtick"

\* "```"
Fence == <<Backtick, Backtick, Backtick>>

\* "```json"
FenceJson == Fence \o <<"json">>

\* s.replace(old, new): the occurrences of old from the left, not overlapping.
RECURSIVE Replace(_, _, _)
Replace(s, old, new) ==
    IF Len(s) < Len(old) THEN s
    ELSE IF SubSeq(s, 1, Len(old)) = old
    THEN new \o Replace(SubSeq(s, Len(old) + 1, Len(s)), old, new)
    ELSE <<Head(s)>> \o Replace(Tail(s), old, new)

\* text.replace("```json", "") and then .replace("```", "")
StripFences(text) == Replace(Replace(text, FenceJson, <<>>), Fence, <<>>)

\* The search with a lazy quantifier, r"\{[\s\S]*?\}": from the first open
\* brace to the first close brace after it.
BraceSearchLazy(text) ==
    LET opens == {i \in 1..Len(text) : text[i] = "{"}
        first == CHOOSE i \in opens : \A j \in opens : i <= j
        closes == {i \in 1..Len(text) : text[i] = "}" /\ i > first}
        last == CHOOSE i \in closes : \A j \in closes : i <= j
    IN  IF opens = {} THEN <<>>
        ELSE IF closes = {} THEN <<>>
        ELSE <<first, last>>

\* re.search(r"\{[\s\S]*\}", text): <<>> for no match, else <<first, last>>,
\* the leftmost open brace that a close brace follows and the last close
\* brace of the text.
BraceSearch(text) ==
    LET opens == {i \in 1..Len(text) : text[i] = "{"}
        first == CHOOSE i \in opens : \A j \in opens : i <= j
        closes == {i \in 1..Len(text) : text[i] = "}" /\ i > first}
        last == CHOOSE i \in closes : \A j \in closes : j <= i
    IN  IF opens = {} THEN <<>>
        ELSE IF closes = {} THEN <<>>
        ELSE <<first, last>>

\* raise ValueError(f"No JSON object found in: {text}")
NotFound(text) ==
    [kind |-> "raise", v |-> None, err |-> "ValueError",
     msg |-> "No JSON object found in", carried |-> text, cause |-> "none"]

\* raise ValueError(f"Invalid JSON extracted: {json_str}\nError: {e}")
MalformedJson(json_str, e) ==
    [kind |-> "raise", v |-> None, err |-> "ValueError",
     msg |-> "Invalid JSON extracted", carried |-> json_str, cause |-> e]

\* return json.loads(json_str)
Extracted(val) ==
    [kind |-> "return", v |-> val, err |-> "none", msg |-> "none",
     carried |-> <<>>, cause |-> "none"]

\* No exception.
NoError ==
    [kind |-> "none", v |-> None, err |-> "none", msg |-> "none",
     carried |-> <<>>, cause |-> "none"]

\* st.error(...) or st.success(...): the message, the raw text and the
\* exception it shows.
Display(what, text, error) == [what |-> what, text |-> text, error |-> error]

\* extract_json(text)
extract_json(text) ==
    LET stripped == StripFences(text)
        match == BraceSearch(stripped)
        json_str == SubSeq(stripped, match[1], match[2])
        parsed == JsonLoads(json_str)
    IN  IF match = <<>> THEN NotFound(stripped)
        ELSE IF parsed.ok THEN Extracted(parsed.v)
        ELSE MalformedJson(json_str, "JSONDecodeError")

(* --------------------- what the language model writes ------------------ *)
(* An object is given by its members in order, each <<key, value>> with a  *)
(* key of one token and a string or number value.                          *)

\* json.dumps of one member value.
DumpsValue(v) == IF IsNum(v) THEN <<Digits[v[2]]>> ELSE JsonDumpsStr(v[2])

RECURSIVE DumpsMembers(_)
DumpsMembers(members) ==
    IF members = <<>> THEN <<>>
    ELSE JsonDumpsStr(members[1][1]) \o <<":", " ">> \o DumpsValue(members[1][2])
         \o (IF Len(members) = 1 THEN <<>> ELSE <<",", " ">>)
         \o DumpsMembers(Tail(members))

\* json(O): the JSON text of the object.
JsonDumps(members) == Braces(DumpsMembers(members))

\* O itself, as json.loads delivers it.
ObjOf(members) ==
    Obj([k \in {members[i][1] : i \in 1..Len(members)} |->
            (CHOOSE m \in {members[i] : i \in 1..Len(members)} : m[1] = k)[2]])

PlanMembers(device, command) ==
    <<<< <<"device">>, Str(device)>>, << <<"command">>, Str(command)>>,
      << <<"intent">>, Str(<<"why">>)>> >>

\* The objects a reply may hold: plans for a known and an unknown device, a
\* plan for the running configuration, objects that are no plan, one with a
\* close brace in a string, one with a fence marker in a string.
Objects ==
    {PlanMembers(<<"R1">>, <<"show", " ", "ip", " ", "route">>),
     PlanMembers(<<"R9">>, <<"show", " ", "ip", " ", "route">>),
     PlanMembers(<<"R2">>, <<"show", " ", "run">>),
     <<>>,
     << << <<"a">>, Num(1)>> >>,
     << << <<"device">>, Num(1)>> >>,
     << << <<"a">>, Str(<<"x", "}">>)>> >>,
     << << <<"a">>, Str(Fence \o <<"x">>)>> >>}

\* Prose before and after the fenced block.
ProseBefore ==
    {<<>>, <<"Here", " ", "it", " ", "is", ":", NL>>,
     <<"Use", " ", "{", "x", "}", NL>>, <<"}", NL>>}

ProseAfter ==
    {<<>>, <<NL, "Done">>, <<NL, "{", "}">>, <<NL, "{">>}

FenceOpens == {FenceJson \o <<NL>>, Fence \o <<NL>>}

\* json(O) in a fenced block inside prose.
Wrap(before, open, members, after) ==
    before \o open \o JsonDumps(members) \o <<NL>> \o Fence \o after

\* Replies that wrap no object: no brace, braces around no JSON, a close
\* brace before the open one, an open brace alone, an unfenced plan.
PlainTexts ==
    {<<>>, <<"no", " ", "plan">>, <<"{", "not", " ", "json", "}">>,
     <<"}", " ", "{">>, <<"{">>, FenceJson,
     JsonDumps(PlanMembers(<<"R1">>, <<"show", " ", "version">>)),
     <<" ">> \o JsonDumps(PlanMembers(<<"R2">>, <<"show", " ", "version">>)) \o <<NL>>}

(* ------------------------------- state --------------------------------- *)

VARIABLES
    pc,             \* the client's position in main and the functions it calls
    caller,         \* the function whose loop called recv()
    req_id,         \* _req_id
    rid,            \* the rid of the call in progress
    sent,           \* what send() wrote to the child's stdin, in order
    out,            \* the child's stdout pipe: lines written and not yet read
    proc,           \* the child: "running", "exited" or "killed"
    termSent,       \* mcp_proc.terminate() was called
    elapsed,        \* time.time() - start of the recv() in progress
    waited,         \* time spent in mcp_proc.wait(timeout=1)
    resp,           \* what the last recv() returned
    ret,            \* what the last tools_list() or tools_call() returned
    names,          \* main's names
    raw,            \* main's raw
    printed,        \* what main printed last
    err,            \* the exception that left main's try block, or "none"
    skipped,        \* history: the call in progress discarded a message
    failed,         \* history: the tool call that returned was answered
                    \* with an error member
    halfSpent,      \* history: an earlier recv() of the request call in
                    \* progress returned within its timeout after more
                    \* than half of it
    answered,       \* history: ids read back while their request was pending
    returned,       \* history: ids whose call returned to main
    validInWindow,  \* history: a valid line was there for the recv() in
                    \* progress before its timeout had elapsed
    dropped         \* history: the recv() in progress has read a line
                    \* and not returned it

VARIABLES
    step,           \* network_buddy.py: the position in one interaction
    raw_plan,       \* the text the language model returned
    plan,           \* what extract_json returned, None before and on failure
    shown,          \* what st.error or st.success last displayed
    connected,      \* the devices device.connect() was called on, in order
    executed,       \* the commands sent to a device, in order
    wrapped         \* history: <<members>> if raw_plan wraps json(O) of the
                    \* object with these members in a fenced block, else <<>>

VARIABLES
    child,          \* agent.py, the child seen from its error stream:
                    \* "diag" (writes diagnostics), "serving" (has answered),
                    \* "exited", or "none" when this part is not under way
    todo,           \* the diagnostic lines the child writes before answering
    stderr,         \* proc.stderr: lines written and not yet read
    emitted,        \* history: every diagnostic line written, in order
    logged,         \* sys.stderr of the client: what the logger printed
    logger,         \* the _stderr_logger thread: "running", "ended" (the
                    \* for loop finished), "killed" (the client exited)
    answer,         \* the response awaited is in the child's stdout pipe
    mainAt,         \* main thread: "recv", "prompt", "finally", "done",
                    \* "exited"
    clock           \* time.time() - start of main's recv()

logVars == <<child, todo, stderr, emitted, logged, logger, answer, mainAt, clock>>

planVars == <<step, raw_plan, plan, shown, connected, executed, wrapped>>

clientOnlyVars == <<pc, caller, req_id, rid, sent, out, proc, termSent, elapsed, waited,
          resp, ret, names, raw, printed, err, skipped, answered, returned,
          validInWindow, dropped, failed, halfSpent>>

vars == <<clientOnlyVars, planVars, logVars>>

clientVars == <<pc, caller, req_id, rid, sent, termSent, elapsed, waited, resp,
                ret, names, raw, printed, err, skipped, answered, returned,
                dropped, failed, halfSpent>>

Request(id, method, name, args) ==
    [id |-> <<id>>, method |-> method, name |-> name, args |-> args]

Notification(method) ==
    [id |-> <<>>, method |-> method, name |-> "", args |-> <<>>]

IsRequest(m) == m.id # <<>>

\* No interaction of the network assistant is under way.
PlanIdle ==
    /\ step = "none"
    /\ raw_plan = <<>>
    /\ plan = None
    /\ shown = Display("none", <<>>, NoError)
    /\ connected = <<>>
    /\ executed = <<>>
    /\ wrapped = <<>>

\* The error stream of the child is not being looked at.
LogIdle ==
    /\ child = "none"
    /\ todo = 0
    /\ stderr = <<>>
    /\ emitted = <<>>
    /\ logged = <<>>
    /\ logger = "running"
    /\ answer = FALSE
    /\ mainAt = "recv"
    /\ clock = 0

ClientInit ==
    /\ pc = "start"
    /\ caller = "none"
    /\ req_id = 0
    /\ rid = 0
    /\ sent = <<>>
    /\ out = <<>>
    /\ proc = "running"
    /\ termSent = FALSE
    /\ elapsed = 0
    /\ waited = 0
    /\ resp = None
    /\ ret = None
    /\ names = <<>>
    /\ raw = <<>>
    /\ printed = "none"
    /\ err = "none"
    /\ skipped = FALSE
    /\ failed = FALSE
    /\ halfSpent = FALSE
    /\ answered = {}
    /\ returned = {}
    /\ validInWindow = FALSE
    /\ dropped = FALSE

Init == ClientInit /\ PlanIdle /\ LogIdle

(* ------------------------------ the child ------------------------------ *)

\* The client is where it waits for the child or the user, or has not begun.
ClientWaits == pc \in {"start", "readline", "prompt", "wait"}

\* The child writes one line to its stdout.
ChildEmit(line) ==
    /\ ClientWaits
    /\ proc = "running"
    /\ Len(out) < MaxPipe
    /\ out' = Append(out, line)
    /\ validInWindow' =
         (validInWindow \/ (pc = "readline" /\ elapsed < Timeout /\ ValidLine(line)))
    /\ UNCHANGED <<proc>>
    /\ UNCHANGED clientVars
    /\ UNCHANGED failed
    /\ UNCHANGED halfSpent
    /\ UNCHANGED <<planVars, logVars>>

\* The child exits (by itself, or on SIGTERM); its end of the pipes closes.
ChildExit ==
    /\ ClientWaits
    /\ proc = "running"
    /\ proc' = "exited"
    /\ UNCHANGED <<out, validInWindow, dropped>>
    /\ UNCHANGED clientVars
    /\ UNCHANGED failed
    /\ UNCHANGED halfSpent
    /\ UNCHANGED <<planVars, logVars>>

(* -------------------------- exceptions, ids, send ----------------------- *)

\* A handler inside recv that swallows its timeout and polls again.
HandlerOfRetry(e) == IF e = "TimeoutError" THEN "recv_check" ELSE "finally"

\* Where an exception raised inside main's try block goes.
HandlerOf(e) == "finally"

\* _next_id that increments the counter only the first time.
NextIdNoIncrement == IF req_id = 0 THEN req_id + 1 ELSE req_id

\* _next_id(): the counter after the increment, which is also the id returned.
NextId == req_id + 1

\* The start of one recv() call.
RecvStart ==
    /\ elapsed' = 0
    /\ resp' = None
    /\ validInWindow' = (\E i \in 1..Len(out) : ValidLine(out[i]))
    /\ dropped' = FALSE
    /\ pc' = "recv_check"

\* rid = _next_id(); send(request); then the first recv() of the loop.
\* Writing to the pipe of a child that has exited raises BrokenPipeError.
CallSend(c, method, name, args) ==
    /\ req_id' = NextId
    /\ rid' = req_id'
    /\ ret' = None
    /\ skipped' = FALSE
    /\ halfSpent' = FALSE
    /\ IF proc = "running"
       THEN /\ sent' = Append(sent, Request(rid', method, name, args))
            /\ caller' = c
            /\ RecvStart
            /\ err' = err
       ELSE /\ err' = "BrokenPipeError"
            /\ pc' = HandlerOf(err')
            /\ UNCHANGED <<sent, caller, elapsed, resp, validInWindow, dropped>>

(* -------------------------------- recv --------------------------------- *)

\* while time.time() - start < timeout: ... else raise TimeoutError
RecvCheck ==
    /\ pc = "recv_check"
    /\ IF elapsed < Timeout
       THEN pc' = "readline" /\ err' = err
       ELSE err' = "TimeoutError" /\ pc' = HandlerOf(err')
    /\ UNCHANGED <<caller, req_id, rid, sent, out, proc, termSent, elapsed,
                   waited, resp, ret, names, raw, printed, skipped, answered,
                   returned, validInWindow, dropped>>
    /\ UNCHANGED failed
    /\ UNCHANGED halfSpent
    /\ UNCHANGED <<planVars, logVars>>

\* recv without the "if not line: continue" after strip(): a blank line
\* ends the read with nothing.
LineOutcomeBlankReturns(line) ==
    LET stripped == Strip(line)
        parsed == JsonLoads(stripped)
    IN  IF stripped = <<>> THEN [kind |-> "return", v |-> None]
        ELSE IF parsed.ok THEN [kind |-> "return", v |-> parsed.v]
        ELSE [kind |-> "continue", v |-> None]

\* What one loop body does with a line that readline() returned.
\* "return": recv returns the decoded value; "continue": the loop goes on.
LineOutcome(line) ==
    LET stripped == Strip(line)
        parsed == JsonLoads(stripped)
    IN  IF stripped = <<>> THEN [kind |-> "continue", v |-> None]
        ELSE IF parsed.ok THEN [kind |-> "return", v |-> parsed.v]
        ELSE [kind |-> "continue", v |-> None]

\* readline() returns the next line of the pipe.
ReadLine ==
    /\ pc = "readline"
    /\ out # <<>>
    /\ out' = Tail(out)
    /\ LET o == LineOutcome(Head(out))
       IN  /\ resp' = o.v
           /\ pc' = IF o.kind = "return" THEN "match" ELSE "recv_check"
           /\ dropped' = (dropped \/ o.kind # "return")
    /\ UNCHANGED <<caller, req_id, rid, sent, proc, termSent, elapsed, waited,
                   ret, names, raw, printed, err, skipped, answered, returned,
                   validInWindow>>
    /\ UNCHANGED failed
    /\ UNCHANGED halfSpent
    /\ UNCHANGED <<planVars, logVars>>

\* readline() returns "" at end of stream: time.sleep(0.01), which may take
\* the clock over the next whole unit, and continue.
ReadLineEOF ==
    /\ pc = "readline"
    /\ out = <<>>
    /\ proc # "running"
    /\ elapsed' \in {elapsed, elapsed + 1}
    /\ pc' = "recv_check"
    /\ UNCHANGED <<caller, req_id, rid, sent, out, proc, termSent, waited, resp,
                   ret, names, raw, printed, err, skipped, answered, returned,
                   validInWindow, dropped>>
    /\ UNCHANGED failed
    /\ UNCHANGED halfSpent
    /\ UNCHANGED <<planVars, logVars>>

\* readline() blocks: the child is alive and has written nothing.
ReadLineBlocked ==
    /\ pc = "readline"
    /\ out = <<>>
    /\ proc = "running"
    /\ elapsed < Timeout + MaxOverrun
    /\ elapsed' = elapsed + 1
    /\ UNCHANGED <<pc, caller, req_id, rid, sent, out, proc, termSent, waited,
                   resp, ret, names, raw, printed, err, skipped, answered,
                   returned, validInWindow, dropped>>
    /\ UNCHANGED failed
    /\ UNCHANGED halfSpent
    /\ UNCHANGED <<planVars, logVars>>

(* ----------------------- the three request loops ----------------------- *)

Raises(e) == [kind |-> "raise", err |-> e, v |-> None]

Returns(v) == [kind |-> "return", err |-> "none", v |-> v]

Continues == [kind |-> "continue", err |-> "none", v |-> None]

\* The id a message carries: <<n>>, or <<>> when it has no integer id.
IdOf(r) ==
    IF IsDict(r) /\ HasKey(r, "id") /\ IsNum(DictGet(r, "id"))
    THEN <<DictGet(r, "id")[2]>> ELSE <<>>

\* initialize that leaves its loop on the first message, whatever its id.
InitializeOutcomeFirst(r, id) ==
    IF ~IsDict(r) THEN Raises("AttributeError") ELSE Returns(None)

\* initialize: if resp.get("id") == rid: break
InitializeOutcome(r, id) ==
    IF ~IsDict(r) THEN Raises("AttributeError")
    ELSE IF EqualsInt(DictGet(r, "id"), id) THEN Returns(None)
    ELSE Continues

\* tools_list: if resp.get("id") == rid: return resp["result"]["tools"]
ToolsListOutcome(r, id) ==
    IF ~IsDict(r) THEN Raises("AttributeError")
    ELSE IF ~EqualsInt(DictGet(r, "id"), id) THEN Continues
    ELSE IF ~HasKey(r, "result") THEN Raises("KeyError")
    ELSE IF ~IsDict(DictGet(r, "result")) THEN Raises("TypeError")
    ELSE IF ~HasKey(DictGet(r, "result"), "tools") THEN Raises("KeyError")
    ELSE Returns(DictGet(DictGet(r, "result"), "tools"))

\* "id" in resp, for the values recv() can return.
ContainsId(r) ==
    IF IsDict(r) THEN HasKey(r, "id")
    ELSE IF IsList(r) THEN \E i \in 1..Len(r[2]) : EqualsWord(r[2][i], "id")
    ELSE \E i \in 1..Len(r[2]) : r[2][i] = "id"

\* The unwrapping without the second json.loads: the text is returned as it is.
UnwrapResultUnparsed(r) ==
    LET result == IF HasKey(r, "result") THEN DictGet(r, "result") ELSE EmptyDict
        content == DictGet(result, "content")
        block == content[2][1]
        text == DictGet(block, "text")
    IN  IF ~IsDict(result) THEN Raises("AttributeError")
        ELSE IF ~(IsList(content) /\ content[2] # <<>>) THEN Returns(result)
        ELSE IF ~IsDict(block) THEN Raises("AttributeError")
        ELSE IF ~EqualsWord(DictGet(block, "type"), "text") THEN Returns(result)
        ELSE IF ~HasKey(block, "text") THEN Raises("KeyError")
        ELSE Returns(text)

\* tools_call: the unwrapping of the matching response's result.
UnwrapResult(r) ==
    LET result == IF HasKey(r, "result") THEN DictGet(r, "result") ELSE EmptyDict
        content == DictGet(result, "content")
        block == content[2][1]
        text == DictGet(block, "text")
    IN  IF ~IsDict(result) THEN Raises("AttributeError")
        ELSE IF ~(IsList(content) /\ content[2] # <<>>) THEN Returns(result)
        ELSE IF ~IsDict(block) THEN Raises("AttributeError")
        ELSE IF ~EqualsWord(DictGet(block, "type"), "text") THEN Returns(result)
        ELSE IF ~HasKey(block, "text") THEN Raises("KeyError")
        ELSE IF ~IsStr(text) THEN Raises("TypeError")
        ELSE IF ~JsonLoads(text[2]).ok THEN Raises("JSONDecodeError")
        ELSE Returns(JsonLoads(text[2]).v)

\* tools_call without the test of resp["id"] against rid.
ToolsCallOutcomeAnyId(r, id) ==
    IF IsNum(r) THEN Raises("TypeError")
    ELSE IF ~ContainsId(r) THEN Continues
    ELSE IF ~IsDict(r) THEN Raises("TypeError")
    ELSE UnwrapResult(r)

\* tools_call: skip what has no id or another id, unwrap the matching result.
ToolsCallOutcome(r, id) ==
    IF IsNum(r) THEN Raises("TypeError")
    ELSE IF ~ContainsId(r) THEN Continues
    ELSE IF ~IsDict(r) THEN Raises("TypeError")
    ELSE IF ~EqualsInt(DictGet(r, "id"), id) THEN Continues
    ELSE UnwrapResult(r)

\* The history of one message handled by a request loop.
Noted ==
    answered' = IF IdOf(resp) = <<rid>> THEN answered \cup {rid} ELSE answered

\* continue: the next recv() of the loop.
LoopContinue ==
    /\ skipped' = TRUE
    /\ halfSpent' = (halfSpent \/ (2 * elapsed > Timeout /\ elapsed < Timeout))
    /\ RecvStart
    /\ UNCHANGED <<caller, req_id, rid, sent, out, proc, termSent, waited, ret,
                   names, raw, printed, err, returned>>

\* The loop ends: its resp and the clock of its last recv() are gone.
LoopEnd ==
    /\ resp' = None
    /\ elapsed' = 0
    /\ validInWindow' = FALSE
    /\ dropped' = FALSE
    /\ halfSpent' = FALSE

\* An exception leaves the loop and main's try block.
LoopRaise(e) ==
    /\ err' = e
    /\ pc' = HandlerOf(e)
    /\ LoopEnd
    /\ skipped' = FALSE
    /\ UNCHANGED <<caller, req_id, rid, sent, out, proc, termSent, waited, ret,
                   names, raw, printed, returned>>

\* print("[CLIENT] Initializing MCP..."); initialize(): the request is sent.
MainInitialize ==
    /\ pc = "start"
    /\ printed' = "init"
    /\ CallSend("initialize", "initialize", "", <<>>)
    /\ UNCHANGED <<out, proc, termSent, waited, names, raw, answered, returned>>
    /\ UNCHANGED failed
    /\ UNCHANGED <<planVars, logVars>>

\* initialize: one message of the loop; on the match, the notification.
InitializeMatch ==
    /\ pc = "match"
    /\ caller = "initialize"
    /\ Noted
    /\ LET o == InitializeOutcome(resp, rid)
       IN  IF o.kind = "continue" THEN LoopContinue
           ELSE IF o.kind = "raise" THEN LoopRaise(o.err)
           ELSE IF proc # "running" THEN LoopRaise("BrokenPipeError")
           ELSE /\ sent' = Append(sent, Notification("notifications/initialized"))
                /\ returned' = returned \cup {rid}
                /\ pc' = "main_list"
                /\ LoopEnd
                /\ UNCHANGED <<caller, req_id, rid, out, proc, termSent, waited,
                               ret, names, raw, printed, err, skipped>>
    /\ UNCHANGED failed
    /\ UNCHANGED <<planVars, logVars>>

\* tools = tools_list(): the request is sent.
MainToolsList ==
    /\ pc = "main_list"
    /\ CallSend("tools_list", "tools/list", "", <<>>)
    /\ UNCHANGED <<out, proc, termSent, waited, names, raw, printed, answered,
                   returned>>
    /\ UNCHANGED failed
    /\ UNCHANGED <<planVars, logVars>>

\* tools_list: one message of the loop.
ToolsListMatch ==
    /\ pc = "match"
    /\ caller = "tools_list"
    /\ Noted
    /\ LET o == ToolsListOutcome(resp, rid)
       IN  IF o.kind = "continue" THEN LoopContinue
           ELSE IF o.kind = "raise" THEN LoopRaise(o.err)
           ELSE /\ ret' = o.v
                /\ returned' = returned \cup {rid}
                /\ pc' = "main_names"
                /\ LoopEnd
                /\ UNCHANGED <<caller, req_id, rid, sent, out, proc, termSent,
                               waited, names, raw, printed, err, skipped>>
    /\ UNCHANGED failed
    /\ UNCHANGED <<planVars, logVars>>

\* The names taken from the end of the list backwards.
NamesOfReversed(tools) ==
    IF IsNum(tools) \/ tools = None THEN Raises("TypeError")
    ELSE IF tools[2] = <<>> THEN Returns(<<>>)
    ELSE IF ~IsList(tools) THEN Raises("TypeError")
    ELSE IF \E i \in 1..Len(tools[2]) : ~IsDict(tools[2][i]) THEN Raises("TypeError")
    ELSE IF \E i \in 1..Len(tools[2]) : ~HasKey(tools[2][i], "name")
    THEN Raises("KeyError")
    ELSE Returns([i \in 1..Len(tools[2]) |->
                    DictGet(tools[2][Len(tools[2]) + 1 - i], "name")])

\* [t["name"] for t in tools]
NamesOf(tools) ==
    IF IsNum(tools) \/ tools = None THEN Raises("TypeError")
    ELSE IF tools[2] = <<>> THEN Returns(<<>>)
    ELSE IF ~IsList(tools) THEN Raises("TypeError")
    ELSE IF \E i \in 1..Len(tools[2]) : ~IsDict(tools[2][i]) THEN Raises("TypeError")
    ELSE IF \E i \in 1..Len(tools[2]) : ~HasKey(tools[2][i], "name")
    THEN Raises("KeyError")
    ELSE Returns([i \in 1..Len(tools[2]) |-> DictGet(tools[2][i], "name")])

\* names = [t["name"] for t in tools]; print("[CLIENT] Tools available:", names)
MainNames ==
    /\ pc = "main_names"
    /\ LET o == NamesOf(ret)
       IN  IF o.kind = "raise"
           THEN err' = o.err /\ pc' = HandlerOf(o.err) /\ UNCHANGED <<names, printed>>
           ELSE names' = o.v /\ printed' = "tools" /\ pc' = "prompt" /\ err' = err
    /\ skipped' = FALSE
    /\ UNCHANGED <<caller, req_id, rid, sent, out, proc, termSent, elapsed,
                   waited, resp, ret, raw, answered, returned, validInWindow,
                   dropped>>
    /\ UNCHANGED failed
    /\ UNCHANGED halfSpent
    /\ UNCHANGED <<planVars, logVars>>

\* The exit test without the empty line.
IsExitWordNoEmpty(r) == r \in {<<"exit">>, <<"quit">>}

\* if raw in ("exit", "quit", ""): break
IsExitWord(r) == r \in {<<"exit">>, <<"quit">>, <<>>}

\* One turn of the prompt: raw = input("> ").strip(), which prints the
\* prompt, then break, the usage hint, or tools_call("multiply", {"a": a,
\* "b": b}) up to its send.
Prompt(line) ==
    /\ pc = "prompt"
    /\ raw' = Strip(line)
    /\ IF IsExitWord(raw')
       THEN /\ pc' = "finally"
            /\ printed' = "prompt"
            /\ UNCHANGED <<caller, req_id, rid, sent, elapsed, resp, ret, err,
                           skipped, validInWindow, dropped, halfSpent>>
       ELSE IF ~TwoNumbers(raw')
       THEN /\ printed' = "usage"
            /\ UNCHANGED <<pc, caller, req_id, rid, sent, elapsed, resp, ret,
                           err, skipped, validInWindow, dropped, halfSpent>>
       ELSE /\ req_id < MaxId
            /\ CallSend("tools_call", "tools/call", "multiply",
                        <<FloatOf(Split(raw')[1]), FloatOf(Split(raw')[2])>>)
            /\ printed' = "prompt"
    /\ UNCHANGED <<out, proc, termSent, waited, names, answered, returned>>
    /\ UNCHANGED failed
    /\ UNCHANGED <<planVars, logVars>>

\* input() at end of input raises EOFError.
PromptEOF ==
    /\ pc = "prompt"
    /\ err' = "EOFError"
    /\ pc' = HandlerOf(err')
    /\ printed' = "prompt"
    /\ UNCHANGED <<caller, req_id, rid, sent, out, proc, termSent, elapsed,
                   waited, resp, ret, names, raw, skipped, answered,
                   returned, validInWindow, dropped>>
    /\ UNCHANGED failed
    /\ UNCHANGED halfSpent
    /\ UNCHANGED <<planVars, logVars>>

\* tools_call: one message of the loop.
ToolsCallMatch ==
    /\ pc = "match"
    /\ caller = "tools_call"
    /\ Noted
    /\ LET o == ToolsCallOutcome(resp, rid)
       IN  IF o.kind = "continue" THEN LoopContinue
           ELSE IF o.kind = "raise" THEN LoopRaise(o.err)
           ELSE /\ ret' = o.v
                /\ returned' = returned \cup {rid}
                /\ pc' = "main_print"
                /\ LoopEnd
                /\ UNCHANGED <<caller, req_id, rid, sent, out, proc, termSent,
                               waited, names, raw, printed, err, skipped>>
    /\ failed' = (pc' = "main_print" /\ HasKey(resp, "error"))
    /\ UNCHANGED <<planVars, logVars>>

\* result["summary"]
SummaryOf(result) ==
    IF ~IsDict(result) THEN Raises("TypeError")
    ELSE IF ~HasKey(result, "summary") THEN Raises("KeyError")
    ELSE Returns(DictGet(result, "summary"))

\* print(result["summary"]), and back to the prompt.
MainPrint ==
    /\ pc = "main_print"
    /\ LET o == SummaryOf(ret)
       IN  IF o.kind = "raise"
           THEN err' = o.err /\ pc' = HandlerOf(o.err) /\ UNCHANGED printed
           ELSE printed' = "summary" /\ pc' = "prompt" /\ err' = err
    /\ skipped' = FALSE
    /\ UNCHANGED <<caller, req_id, rid, sent, out, proc, termSent, elapsed,
                   waited, resp, ret, names, raw, answered, returned,
                   validInWindow, dropped>>
    /\ failed' = FALSE
    /\ UNCHANGED halfSpent
    /\ UNCHANGED <<planVars, logVars>>

(* ------------------------------- cleanup -------------------------------- *)

\* finally: mcp_proc.terminate(), then mcp_proc.wait(timeout=1) begins.
Terminate ==
    /\ pc = "finally"
    /\ termSent' = TRUE
    /\ waited' = 0
    /\ pc' = "wait"
    /\ UNCHANGED <<caller, req_id, rid, sent, out, proc, elapsed, resp, ret,
                   names, raw, printed, err, skipped, answered, returned,
                   validInWindow, dropped>>
    /\ UNCHANGED failed
    /\ UNCHANGED halfSpent
    /\ UNCHANGED <<planVars, logVars>>

\* wait() returns: the child has exited.
WaitReturn ==
    /\ pc = "wait"
    /\ proc # "running"
    /\ pc' = "done"
    /\ UNCHANGED <<caller, req_id, rid, sent, out, proc, termSent, elapsed,
                   waited, resp, ret, names, raw, printed, err, skipped,
                   answered, returned, validInWindow, dropped>>
    /\ UNCHANGED failed
    /\ UNCHANGED halfSpent
    /\ UNCHANGED <<planVars, logVars>>

\* Time passes in wait().
WaitTick ==
    /\ pc = "wait"
    /\ proc = "running"
    /\ waited < GraceTimeout
    /\ waited' = waited + 1
    /\ UNCHANGED <<pc, caller, req_id, rid, sent, out, proc, termSent, elapsed,
                   resp, ret, names, raw, printed, err, skipped, answered,
                   returned, validInWindow, dropped>>
    /\ UNCHANGED failed
    /\ UNCHANGED halfSpent
    /\ UNCHANGED <<planVars, logVars>>

\* "except subprocess.TimeoutExpired: pass": no kill.
KillNoop(p) == p

\* mcp_proc.kill()
Kill(p) == IF p = "running" THEN "killed" ELSE p

\* except subprocess.TimeoutExpired: mcp_proc.kill()
WaitExpired ==
    /\ pc = "wait"
    /\ proc = "running"
    /\ waited >= GraceTimeout
    /\ proc' = Kill(proc)
    /\ pc' = "done"
    /\ UNCHANGED <<caller, req_id, rid, sent, out, termSent, elapsed, waited,
                   resp, ret, names, raw, printed, err, skipped, answered,
                   returned, validInWindow, dropped>>
    /\ UNCHANGED failed
    /\ UNCHANGED halfSpent
    /\ UNCHANGED <<planVars, logVars>>

(* ---------------------------- specification ----------------------------- *)

Next ==
    \/ \E line \in Lines : ChildEmit(line)
    \/ ChildExit
    \/ MainInitialize
    \/ RecvCheck
    \/ ReadLine
    \/ ReadLineEOF
    \/ ReadLineBlocked
    \/ InitializeMatch
    \/ MainToolsList
    \/ ToolsListMatch
    \/ MainNames
    \/ \E line \in Inputs : Prompt(line)
    \/ PromptEOF
    \/ ToolsCallMatch
    \/ MainPrint
    \/ Terminate
    \/ WaitReturn
    \/ WaitTick
    \/ WaitExpired

Spec == Init /\ [][Next]_vars

\* time.sleep(0.01) at end of stream takes the clock over a whole unit.
SleepTick == ReadLineEOF /\ elapsed' = elapsed + 1

\* The client is a running process: it takes its next step when it has
\* one, and the sleeps of the polling loop add up to whole time units.
FairSpec ==
    /\ Spec
    /\ WF_vars(RecvCheck)
    /\ SF_vars(SleepTick)

(* ------------------- the network assistant's interaction --------------- *)
(* RAG/Lab04/network_buddy.py, "Main Logic": one interaction from the      *)
(* reply of the language model to the end of the command execution.        *)

\* DEVICE_LIST = list(testbed.devices.keys())
DEVICE_LIST == << <<"R1">>, <<"R2">> >>

\* The validation without the look-up in DEVICE_LIST.
DeviceKnownAny(p) == IsStr(DictGet(p, "device"))

\* plan["device"] in DEVICE_LIST
DeviceKnown(p) ==
    /\ IsStr(DictGet(p, "device"))
    /\ \E i \in 1..Len(DEVICE_LIST) : DEVICE_LIST[i] = DictGet(p, "device")[2]

RECURSIVE Contains(_, _)
\* needle in text
Contains(text, needle) ==
    IF Len(text) < Len(needle) THEN FALSE
    ELSE SubSeq(text, 1, Len(needle)) = needle \/ Contains(Tail(text), needle)

\* "show run" in command or "show running" in command
RawMode(command) ==
    \/ Contains(command, <<"show", " ", "run">>)
    \/ Contains(command, <<"show", " ", "running">>)

Call(device, command, how) == [device |-> device, command |-> command, how |-> how]

\* The reply of the language model: json(O) in a fenced block inside prose,
\* or a text that wraps nothing.
PlanInit ==
    /\ ClientInit
    /\ LogIdle
    /\ step = "extract"
    /\ plan = None
    /\ shown = Display("none", <<>>, NoError)
    /\ connected = <<>>
    /\ executed = <<>>
    /\ \/ \E before \in ProseBefore, open \in FenceOpens, members \in Objects,
            after \in ProseAfter :
            /\ raw_plan = Wrap(before, open, members, after)
            /\ wrapped = <<members>>
       \/ \E text \in PlainTexts :
            /\ raw_plan = text
            /\ wrapped = <<>>

\* try: plan = extract_json(raw_plan) / except: st.error(...); st.stop()
PlanExtract ==
    /\ step = "extract"
    /\ LET o == extract_json(raw_plan)
       IN  IF o.kind = "raise"
           THEN /\ shown' = Display("LLM did not return valid JSON", raw_plan, o)
                /\ step' = "stopped"
                /\ plan' = plan
           ELSE /\ plan' = o.v
                /\ step' = "validate"
                /\ shown' = shown
    /\ UNCHANGED <<raw_plan, connected, executed, wrapped, clientOnlyVars, logVars>>

\* if plan["device"] not in DEVICE_LIST: st.error(...); st.stop()
\* st.success(f"Running `{plan['command']}` on `{plan['device']}` ...")
PlanValidate ==
    /\ step = "validate"
    /\ IF ~HasKey(plan, "device")
       THEN step' = "raised" /\ shown' = Display("KeyError", <<>>, NoError)
       ELSE IF ~DeviceKnown(plan)
       THEN step' = "stopped" /\ shown' = Display("Device not found", <<>>, NoError)
       ELSE IF ~HasKey(plan, "command") \/ ~HasKey(plan, "intent")
       THEN step' = "raised" /\ shown' = Display("KeyError", <<>>, NoError)
       ELSE step' = "connect" /\ shown' = Display("Running", <<>>, NoError)
    /\ UNCHANGED <<raw_plan, plan, connected, executed, wrapped, clientOnlyVars, logVars>>

\* device = testbed.devices[plan["device"]]; device.connect(...)
PlanConnect ==
    /\ step = "connect"
    /\ connected' = Append(connected, DictGet(plan, "device")[2])
    /\ \E ok \in BOOLEAN :
         IF ok THEN step' = "run" /\ shown' = shown
         ELSE /\ step' = "stopped"
              /\ shown' = Display("Could not connect or run command", <<>>, NoError)
    /\ UNCHANGED <<raw_plan, plan, executed, wrapped, clientOnlyVars, logVars>>

\* output, is_raw = smart_run(device, plan["command"])
PlanRun ==
    /\ step = "run"
    /\ LET device == connected[Len(connected)]
           command == DictGet(plan, "command")
       IN  \E parses \in BOOLEAN, runs \in BOOLEAN :
             /\ IF ~IsStr(command) THEN executed' = executed
                ELSE IF RawMode(command[2])
                THEN executed' = Append(executed, Call(device, command[2], "execute"))
                ELSE IF parses
                THEN executed' = Append(executed, Call(device, command[2], "parse"))
                ELSE executed' = executed \o <<Call(device, command[2], "parse"),
                                              Call(device, command[2], "execute")>>
             /\ IF IsStr(command) /\ (runs \/ (parses /\ ~RawMode(command[2])))
                THEN step' = "save" /\ shown' = shown
                ELSE /\ step' = "stopped"
                     /\ shown' = Display("Could not connect or run command", <<>>,
                                         NoError)
    /\ UNCHANGED <<raw_plan, plan, connected, wrapped, clientOnlyVars, logVars>>

PlanNext ==
    \/ PlanExtract
    \/ PlanValidate
    \/ PlanConnect
    \/ PlanRun

PlanSpec == PlanInit /\ [][PlanNext]_vars

(* --------------------------- the stderr logger -------------------------- *)
(* MCP/Lab01/agent.py: the child's error stream is a pipe (stderr=PIPE)     *)
(* read by the daemon thread _stderr_logger while the main thread waits in  *)
(* recv() for the response to a request, and then ends the session.         *)

\* What the child may write to its error stream: lines of text.
DiagLines == {<<"warn", NL>>, <<"trace", " ", NL>>}

\* print("[MCP STDERR]", line.rstrip(), file=sys.stderr)
LogLine(line) == <<"[MCP STDERR]", " ">> \o RStrip(line) \o <<NL>>

\* A logger that prints the newest line first.
ForwardNewestFirst(sink, line) == <<LogLine(line)>> \o sink

\* One turn of "for line in proc.stderr": the line is printed after the
\* lines printed before.
Forward(sink, line) == Append(sink, LogLine(line))

\* The child is started, the logger thread is started, and main has sent a
\* request and waits in recv().
LogInit ==
    /\ ClientInit
    /\ PlanIdle
    /\ child = "diag"
    /\ todo \in 0..MaxDiag
    /\ stderr = <<>>
    /\ emitted = <<>>
    /\ logged = <<>>
    /\ logger = "running"
    /\ answer = FALSE
    /\ mainAt = "recv"
    /\ clock = 0

\* The child writes a diagnostic line; the write blocks while the pipe is
\* full.
DiagWrite(line) ==
    /\ child = "diag"
    /\ Len(emitted) < todo
    /\ Len(stderr) < StderrCap
    /\ stderr' = Append(stderr, line)
    /\ emitted' = Append(emitted, line)
    /\ UNCHANGED <<child, todo, logged, logger, answer, mainAt, clock>>
    /\ UNCHANGED <<clientOnlyVars, planVars>>

\* The child has written its diagnostics and answers the request.
DiagAnswer ==
    /\ child = "diag"
    /\ Len(emitted) = todo
    /\ answer' = TRUE
    /\ child' = "serving"
    /\ UNCHANGED <<todo, stderr, emitted, logged, logger, mainAt, clock>>
    /\ UNCHANGED <<clientOnlyVars, planVars>>

\* The child ends by itself; its end of the error stream is closed.
DiagChildExit ==
    /\ child \in {"diag", "serving"}
    /\ child' = "exited"
    /\ UNCHANGED <<todo, stderr, emitted, logged, logger, answer, mainAt, clock>>
    /\ UNCHANGED <<clientOnlyVars, planVars>>

\* for line in proc.stderr: print(...)
LoggerForward ==
    /\ logger = "running"
    /\ stderr # <<>>
    /\ logged' = Forward(logged, Head(stderr))
    /\ stderr' = Tail(stderr)
    /\ UNCHANGED <<child, todo, emitted, logger, answer, mainAt, clock>>
    /\ UNCHANGED <<clientOnlyVars, planVars>>

\* The iteration meets the end of the stream: the thread's function returns.
LoggerEnd ==
    /\ logger = "running"
    /\ stderr = <<>>
    /\ child = "exited"
    /\ logger' = "ended"
    /\ UNCHANGED <<child, todo, stderr, emitted, logged, answer, mainAt, clock>>
    /\ UNCHANGED <<clientOnlyVars, planVars>>

\* recv(): nothing to read yet, and the timeout has not elapsed.
RecvWait ==
    /\ mainAt = "recv"
    /\ ~answer
    /\ clock < Timeout
    /\ clock' = clock + 1
    /\ UNCHANGED <<child, todo, stderr, emitted, logged, logger, answer, mainAt>>
    /\ UNCHANGED <<clientOnlyVars, planVars>>

\* recv() returns the response; the call returns to main.
RecvReturn ==
    /\ mainAt = "recv"
    /\ answer
    /\ clock < Timeout
    /\ mainAt' = "prompt"
    /\ UNCHANGED <<child, todo, stderr, emitted, logged, logger, answer, clock>>
    /\ UNCHANGED <<clientOnlyVars, planVars>>

\* recv() raises TimeoutError, which leaves main's try block.
RecvTimeout ==
    /\ mainAt = "recv"
    /\ clock >= Timeout
    /\ mainAt' = "finally"
    /\ UNCHANGED <<child, todo, stderr, emitted, logged, logger, answer, clock>>
    /\ UNCHANGED <<clientOnlyVars, planVars>>

\* The user ends the session: break.
SessionEnd ==
    /\ mainAt = "prompt"
    /\ mainAt' = "finally"
    /\ UNCHANGED <<child, todo, stderr, emitted, logged, logger, answer, clock>>
    /\ UNCHANGED <<clientOnlyVars, planVars>>

\* finally: terminate(), wait(timeout=1), kill(): the child is gone.
Cleanup ==
    /\ mainAt = "finally"
    /\ child' = "exited"
    /\ mainAt' = "done"
    /\ UNCHANGED <<todo, stderr, emitted, logged, logger, answer, clock>>
    /\ UNCHANGED <<clientOnlyVars, planVars>>

\* main() returns and the interpreter exits: a daemon thread still running
\* is ended with it.
ClientExit ==
    /\ mainAt = "done"
    /\ mainAt' = "exited"
    /\ logger' = IF logger = "running" THEN "killed" ELSE logger
    /\ UNCHANGED <<child, todo, stderr, emitted, logged, answer, clock>>
    /\ UNCHANGED <<clientOnlyVars, planVars>>

LogNext ==
    \/ \E line \in DiagLines : DiagWrite(line)
    \/ DiagAnswer
    \/ DiagChildExit
    \/ LoggerForward
    \/ LoggerEnd
    \/ RecvWait
    \/ RecvReturn
    \/ RecvTimeout
    \/ SessionEnd
    \/ Cleanup
    \/ ClientExit

LogSpec == LogInit /\ [][LogNext]_vars

\* The logger is a thread of a running process: it takes its next step
\* when it has one.
FairLogSpec ==
    /\ LogSpec
    /\ WF_vars(LoggerForward)
    /\ WF_vars(LoggerEnd)

(* ------------------------------- claims --------------------------------- *)

ReturnPcs == {"main_list", "main_names", "main_print"}

\* C1: a request call completes only on a response whose id is the id issued
\* for that call; a message with no id or with another id is discarded: the
\* loop goes on to the next recv() and the message changes nothing the caller
\* sees (no result, nothing sent, nothing printed, no error).
C1_OnlyMatchingResponse ==
    [][/\ (pc = "match" /\ pc' \in ReturnPcs) => IdOf(resp) = <<rid>>
       /\ (pc = "match" /\ pc' # "match" /\ IsDict(resp) /\ IdOf(resp) # <<rid>>) =>
            /\ pc' = "recv_check"
            /\ resp' = None
            /\ UNCHANGED <<ret, sent, names, printed, rid, req_id, err>>
      ]_vars

\* C1 witness: a tool call has returned after discarding a message.
C1_Witness == pc = "main_print" /\ skipped /\ rid \in returned

RequestsSent == SelectSeq(sent, IsRequest)

\* C2: the ids of the requests sent start at 1 and increase strictly, so none
\* is issued twice; the initialized notification has no id and uses none up:
\* initialize has id 1 and tools/list has id 2.
C2_FreshIds ==
    /\ \A i \in 1..Len(RequestsSent) :
         /\ RequestsSent[i].id[1] >= 1
         /\ RequestsSent[i].id[1] <= req_id
         /\ \A j \in 1..Len(RequestsSent) :
              i < j => RequestsSent[i].id[1] < RequestsSent[j].id[1]
    /\ (RequestsSent # <<>> => RequestsSent[1].id = <<1>>)
    /\ \A i \in 1..Len(sent) :
         /\ (sent[i].method = "initialize" => sent[i].id = <<1>>)
         /\ (sent[i].method = "notifications/initialized" => sent[i].id = <<>>)
         /\ (sent[i].method = "tools/list" => sent[i].id = <<2>>)

\* C2 witness: the handshake and a tool call were sent, with ids 1, 2, 3.
C2_Witness ==
    /\ Len(sent) = 4
    /\ sent[4].method = "tools/call"
    /\ sent[4].id = <<3>>

\* C3: messages follow the lifecycle order and are serial: initialize is the
\* first message; the initialized notification follows a response carrying the
\* initialize id; tools/list follows the notification; a tools/call follows
\* the return of tools/list; and a request is sent only when every earlier
\* request has had its response.
C3_Lifecycle ==
    /\ (sent # <<>> => sent[1].method = "initialize")
    /\ \A i \in 1..Len(sent) :
         /\ (sent[i].method = "initialize" => i = 1)
         /\ (sent[i].method = "notifications/initialized" =>
               /\ i > 1
               /\ sent[1].id[1] \in answered)
         /\ (sent[i].method = "tools/list" =>
               \E j \in 1..(i - 1) : sent[j].method = "notifications/initialized")
         /\ (sent[i].method = "tools/call" =>
               \E j \in 1..(i - 1) :
                  sent[j].method = "tools/list" /\ sent[j].id[1] \in returned)
         /\ (IsRequest(sent[i]) =>
               \A j \in 1..(i - 1) :
                  IsRequest(sent[j]) => sent[j].id[1] \in answered)

\* C3 witness: the whole lifecycle up to a tool call has been sent.
C3_Witness ==
    /\ Len(sent) = 4
    /\ sent[2].method = "notifications/initialized"
    /\ sent[3].method = "tools/list"
    /\ sent[4].method = "tools/call"

\* C4: recv fails with Timeout when no valid line has arrived within the
\* timeout, and not before the timeout has elapsed: a TimeoutError means the
\* timeout has elapsed, and no recv() is still waiting for a line, or returns
\* one, after the timeout has elapsed.
C4_TimeoutWhenSilent ==
    /\ (err = "TimeoutError" => elapsed >= Timeout)
    /\ (pc \in {"readline", "match"} => elapsed <= Timeout)

\* C5: recv returns the first line, in stream order, that is not blank and
\* parses as JSON: it takes the lines one by one from the head of the stream,
\* returns the decoded line if it is valid and otherwise drops it and goes on
\* reading; and it fails with Timeout only if no valid line was there within
\* the timeout.
C5_FirstValidLine ==
    [][/\ (pc = "readline" /\ pc' # "readline" /\ out # <<>>) =>
            /\ out' = Tail(out)
            /\ IF ValidLine(Head(out))
               THEN pc' = "match" /\ resp' = JsonLoads(Strip(Head(out))).v
               ELSE pc' = "recv_check" /\ resp' = None /\ err' = "none"
       /\ (pc = "recv_check" /\ err' = "TimeoutError") => ~validInWindow
      ]_vars

\* C5 witness: recv has returned an object after dropping a line.
C5_Witness == pc = "match" /\ dropped /\ IsDict(resp)

\* The result wraps text: a non-empty content list whose first block is of
\* kind "text".
WrapsText(result) ==
    /\ HasKey(result, "content")
    /\ IsList(DictGet(result, "content"))
    /\ DictGet(result, "content")[2] # <<>>
    /\ IsDict(DictGet(result, "content")[2][1])
    /\ EqualsWord(DictGet(DictGet(result, "content")[2][1], "type"), "text")

\* The result wraps no text: no content, content that is not a list, an empty
\* content list, or a first block of another kind.
WrapsNothing(result) ==
    \/ ~HasKey(result, "content")
    \/ ~IsList(DictGet(result, "content"))
    \/ DictGet(result, "content")[2] = <<>>
    \/ /\ IsDict(DictGet(result, "content")[2][1])
       /\ ~EqualsWord(DictGet(DictGet(result, "content")[2][1], "type"), "text")

TextOf(result) == DictGet(DictGet(result, "content")[2][1], "text")

\* C6: tools_call returns, for a matching response whose result wraps text,
\* the value decoded from that text, and for a matching response whose result
\* wraps nothing, the result mapping itself.
C6_Unwrap ==
    [][(/\ pc = "match" /\ caller = "tools_call" /\ pc' # "match"
        /\ IdOf(resp) = <<rid>>
        /\ HasKey(resp, "result") /\ IsDict(DictGet(resp, "result"))) =>
          LET result == DictGet(resp, "result")
          IN  /\ (WrapsText(result) /\ pc' = "main_print") =>
                    /\ IsStr(TextOf(result))
                    /\ JsonLoads(TextOf(result)[2]).ok
                    /\ ret' = JsonLoads(TextOf(result)[2]).v
              /\ (/\ WrapsText(result) /\ IsStr(TextOf(result))
                  /\ JsonLoads(TextOf(result)[2]).ok) => pc' = "main_print"
              /\ WrapsNothing(result) => (pc' = "main_print" /\ ret' = result)
      ]_vars

\* C6 witness: the call returned the mapping decoded from the text block.
C6_Witness ==
    /\ pc = "main_print"
    /\ HasKey(ret, "summary")
    /\ EqualsWord(DictGet(ret, "summary"), "3x7=21")

\* C7 as claimed: tools_list() returns the list of the tool names.
C7_ReturnsNames ==
    pc = "main_names" =>
        /\ IsList(ret)
        /\ \A i \in 1..Len(ret[2]) : IsStr(ret[2][i])

\* The response carries a tools array of descriptors, each with a name.
HasToolsArray(r) ==
    /\ HasKey(r, "result")
    /\ HasKey(DictGet(r, "result"), "tools")
    /\ IsList(DictGet(DictGet(r, "result"), "tools"))
    /\ \A i \in 1..Len(DictGet(DictGet(r, "result"), "tools")[2]) :
         HasKey(DictGet(DictGet(r, "result"), "tools")[2][i], "name")

\* C7 as amended: when the matching response carries a tools array of
\* descriptors, tools_list() returns that array unchanged, and main's names
\* are the names of its descriptors in the order the server listed them.
C7_DescriptorsThenNames ==
    [][/\ (/\ pc = "match" /\ caller = "tools_list" /\ pc' # "match"
           /\ IdOf(resp) = <<rid>> /\ HasToolsArray(resp)) =>
             /\ pc' = "main_names"
             /\ ret' = DictGet(DictGet(resp, "result"), "tools")
       /\ (pc = "main_names" /\ pc' # "main_names" /\ IsList(ret)
           /\ \A i \in 1..Len(ret[2]) : HasKey(ret[2][i], "name")) =>
             /\ pc' = "prompt"
             /\ printed' = "tools"
             /\ Len(names') = Len(ret[2])
             /\ \A i \in 1..Len(ret[2]) : names'[i] = DictGet(ret[2][i], "name")
      ]_vars

\* C7 witness: two tools were listed and main holds their names in order.
C7_Witness ==
    /\ pc = "prompt"
    /\ printed = "tools"
    /\ names = <<Str(<<"multiply">>), Str(<<"add">>)>>

\* C8: when main has ended, on whatever path, the cleanup has run: terminate()
\* was called, the wait lasted at most the grace period, the child has exited
\* or was killed, it was killed only after the whole grace period, and the
\* expiry of the wait is not the error main ends with. Every error leads
\* into the cleanup, and the cleanup always has its next step to take.
C8_CleanupCompletes ==
    /\ waited <= GraceTimeout
    /\ (err # "none" => pc \in {"finally", "wait", "done"})
    /\ (pc = "finally" => ENABLED Terminate)
    /\ (pc = "wait" => ENABLED (WaitReturn \/ WaitTick \/ WaitExpired))
    /\ (pc = "wait" => termSent)
    /\ (pc = "done" =>
          /\ termSent
          /\ proc \in {"exited", "killed"}
          /\ (proc = "killed" => waited = GraceTimeout)
          /\ err # "TimeoutExpired")

\* C8 witness: main ended on an error and the child had to be killed.
C8_Witness == pc = "done" /\ proc = "killed" /\ err = "KeyError"

\* C9: at the prompt, exit, quit and the empty line end the loop and send
\* nothing; any other line that is not two numeric tokens prints the usage
\* hint and prompts again, sending nothing, using no id and raising nothing;
\* a line of two numeric tokens sends one tools/call for multiply with the
\* two numbers, under a fresh id.
C9_PromptInputs ==
    [][(pc = "prompt" /\ out' = out /\ proc' = proc /\ err' # "EOFError") =>
          LET w == Split(raw')
          IN  IF raw' \in {<<"exit">>, <<"quit">>, <<>>}
              THEN pc' = "finally" /\ err' = "none" /\ UNCHANGED <<sent, req_id>>
              ELSE IF ~(Len(w) = 2 /\ FloatOk(w[1]) /\ FloatOk(w[2]))
              THEN /\ pc' = "prompt" /\ printed' = "usage" /\ err' = "none"
                   /\ UNCHANGED <<sent, req_id>>
              ELSE proc = "running" =>
                   /\ req_id' = req_id + 1
                   /\ sent' = Append(sent, Request(req_id', "tools/call", "multiply",
                                                   <<FloatOf(w[1]), FloatOf(w[2])>>))
      ]_vars

\* C9 witness: the usage hint was printed after a tool call had been made
\* with the numbers typed.
C9_Witness ==
    /\ pc = "prompt"
    /\ printed = "usage"
    /\ raw = <<"3", " ", "x">>
    /\ Len(sent) = 4
    /\ sent[4].args = <<12, 3>>

\* C10: a tool call that failed, answered with an error member instead of a
\* result so that there is no summary to print, does not end the session
\* while the child is running: main goes back to the prompt with no error.
C10_FailedCallContinues ==
    [][(/\ pc = "main_print" /\ pc' # "main_print"
        /\ failed /\ ~HasKey(ret, "summary") /\ proc = "running") =>
          (pc' = "prompt" /\ err' = "none")
      ]_vars

\* C11: when the reply wraps json(O) in a fenced block inside prose, whatever
\* the prose and whatever the strings of O hold, extract_json returns O.
C11_RoundTrip ==
    (step # "extract" /\ wrapped # <<>>) => plan = ObjOf(wrapped[1])

\* The text has a span that starts with an open brace and ends with a later
\* close brace.
HasBraceSpan(t) ==
    \E i, j \in 1..Len(t) : i < j /\ t[i] = "{" /\ t[j] = "}"

\* The span from the first open brace to the last close brace.
GreedySpan(t) ==
    SubSeq(t,
           CHOOSE i \in 1..Len(t) : t[i] = "{" /\ \A k \in 1..(i - 1) : t[k] # "{",
           CHOOSE j \in 1..Len(t) : t[j] = "}" /\ \A k \in (j + 1)..Len(t) : t[k] # "}")

ExtractionFailed ==
    /\ step = "stopped"
    /\ shown.what = "LLM did not return valid JSON"
    /\ shown.error.kind = "raise"
    /\ plan = None

\* C12: extract_json has one of three outcomes, decided by the text after the
\* removal of the fences: with no brace span it fails with the not-found
\* error; with a brace span that does not parse it fails with the
\* invalid-JSON error, which carries the span and the parse error; otherwise
\* it returns the value parsed from the span. A failure returns no value.
C12_ThreeOutcomes ==
    step # "extract" =>
        LET t == StripFences(raw_plan)
        IN  /\ ~HasBraceSpan(t) =>
                 /\ ExtractionFailed
                 /\ shown.error.msg = "No JSON object found in"
            /\ (HasBraceSpan(t) /\ ~JsonLoads(GreedySpan(t)).ok) =>
                 /\ ExtractionFailed
                 /\ shown.error.msg = "Invalid JSON extracted"
                 /\ shown.error.carried = GreedySpan(t)
                 /\ shown.error.cause = "JSONDecodeError"
            /\ (HasBraceSpan(t) /\ JsonLoads(GreedySpan(t)).ok) =>
                 /\ ~ExtractionFailed
                 /\ plan = JsonLoads(GreedySpan(t)).v

\* C12 witness: the text "{not json}" failed with the invalid-JSON error.
C12_Witness ==
    /\ step = "stopped"
    /\ shown.error.msg = "Invalid JSON extracted"
    /\ shown.error.carried = <<"{", "not", " ", "json", "}">>

InDeviceList(d) == \E i \in 1..Len(DEVICE_LIST) : DEVICE_LIST[i] = d

\* C13: a failed extraction ends the interaction: the raw text of the model
\* is displayed, and no device is connected to and no command is executed;
\* and a device that is connected to, or that a command is executed on, is
\* named in the device list and is the device of the extracted plan.
C13_FailedExtractionIsTerminal ==
    /\ (step # "extract" /\ plan = None) =>
          /\ step = "stopped"
          /\ shown.what = "LLM did not return valid JSON"
          /\ shown.text = raw_plan
          /\ connected = <<>>
          /\ executed = <<>>
    /\ (step = "extract" => connected = <<>> /\ executed = <<>>)
    /\ \A i \in 1..Len(connected) :
          /\ InDeviceList(connected[i])
          /\ DictGet(plan, "device") = Str(connected[i])
    /\ \A i \in 1..Len(executed) :
          /\ InDeviceList(executed[i].device)
          /\ DictGet(plan, "device") = Str(executed[i].device)
          /\ DictGet(plan, "command") = Str(executed[i].command)

\* C13 witness: a reply that wraps an object in prose failed to extract, and
\* the interaction stopped with the raw text displayed.
C13_Witness ==
    /\ step = "stopped"
    /\ plan = None
    /\ wrapped # <<>>
    /\ shown.text = raw_plan
    /\ connected = <<>>

\* C14: a request call does not wait beyond the timeout window, whatever the
\* child writes meanwhile: when an earlier read of the call and the present
\* read each took more than half of the timeout, both within it, and the
\* message read is not the response awaited, the call fails with Timeout
\* instead of discarding the message and reading on.
C14_ChatterCannotExtend ==
    [][(/\ pc = "match" /\ pc' # "match"
        /\ halfSpent /\ 2 * elapsed > Timeout /\ elapsed < Timeout
        /\ IsDict(resp) /\ IdOf(resp) # <<rid>>) =>
          (pc' = "finally" /\ err' = "TimeoutError")
      ]_vars

InRecv == pc \in {"recv_check", "readline"}

\* C15: when the child has terminated while a request is pending and its
\* closed output stream is empty, the reads return nothing, no result is
\* returned, and the call eventually ends: recv fails with TimeoutError when
\* its timeout has elapsed.
C15_ChildExitDetected ==
    /\ [][(proc # "running" /\ out = <<>> /\ InRecv) =>
            /\ out' = <<>>
            /\ resp' = None
            /\ ret' = ret
            /\ \/ InRecv'
               \/ pc' = "finally" /\ err' = "TimeoutError" /\ elapsed >= Timeout
         ]_vars
    /\ (proc # "running" /\ out = <<>> /\ InRecv)
          ~> (pc = "finally" /\ err = "TimeoutError")

\* C15 witness: the child exited during a call and the call ended with
\* TimeoutError after polling the closed stream for the whole timeout.
C15_Witness ==
    /\ pc = "finally"
    /\ err = "TimeoutError"
    /\ proc = "exited"
    /\ out = <<>>
    /\ elapsed = Timeout

\* C16: a response with the id awaited that lacks the result key, or for
\* tools/list a result that lacks the tools key, makes the call fail: the
\* call raises and returns nothing to main.
C16_MalformedRaises ==
    [][(/\ pc = "match" /\ pc' # "match"
        /\ caller \in {"tools_list", "tools_call"}
        /\ IsDict(resp) /\ IdOf(resp) = <<rid>>
        /\ \/ ~HasKey(resp, "result")
           \/ caller = "tools_list" /\ ~HasKey(DictGet(resp, "result"), "tools")) =>
          (pc' = "finally" /\ err' # "none" /\ ret' = ret)
      ]_vars

\* The lines printed are the lines written, one for one and in order.
InOrder ==
    /\ Len(logged) <= Len(emitted)
    /\ \A i \in 1..Len(logged) :
          logged[i] = <<"[MCP STDERR]", " ">> \o RStrip(emitted[i]) \o <<NL>>
    /\ stderr = SubSeq(emitted, Len(logged) + 1, Len(emitted))

\* The child cannot write its next diagnostic line: the pipe is full.
BlockedOnStderr ==
    child = "diag" /\ Len(emitted) < todo /\ Len(stderr) = StderrCap

\* C17 as stated: the child is never left blocked on its error stream
\* while main waits, every diagnostic line written is eventually printed
\* to the log sink, in order, and the logger ends once the child's error
\* stream is closed.
C17_AllForwardedLoggerEnds ==
    /\ [](InOrder)
    /\ []((BlockedOnStderr /\ mainAt = "recv") => ENABLED LoggerForward)
    /\ \A k \in 1..MaxDiag : (Len(emitted) >= k) ~> (Len(logged) >= k)
    /\ (child = "exited") ~> (logger = "ended")

\* C17, amended: what is printed is always a prefix of what was written,
\* in order; a child blocked on a full error pipe while main waits is
\* unblocked by the logger; every line written is printed unless the
\* client process exits first; the logger ends at the end of the stream
\* only after printing every line, or is ended with the client process.
C17_ForwardedWhileClientLives ==
    /\ [](InOrder)
    /\ []((BlockedOnStderr /\ mainAt = "recv") => ENABLED LoggerForward)
    /\ [](logger = "ended" =>
            (child = "exited" /\ stderr = <<>> /\ Len(logged) = Len(emitted)))
    /\ [](logger = "killed" => mainAt = "exited")
    /\ BlockedOnStderr ~> (~BlockedOnStderr)
    /\ \A k \in 1..MaxDiag :
          (Len(emitted) >= k) ~> (Len(logged) >= k \/ mainAt = "exited")
    /\ (child = "exited") ~> (logger \in {"ended", "killed"})

\* C17 witness: the child wrote more lines than the pipe holds before it
\* answered, main got the response, and after the child's exit the logger
\* ended having printed every line.
C17_Witness ==
    /\ Len(emitted) > StderrCap
    /\ answer
    /\ mainAt = "exited"
    /\ logger = "ended"
    /\ Len(logged) = Len(emitted)

====
